---- MODULE Spec2Model ----
(***************************************************************************)
(* A model of toptek.py: the serial driver of the Toptek power amplifier's *)
(* remote-control interface.  The host program is single threaded; the     *)
(* device is the environment, which answers every command written to the   *)
(* serial port with bytes of its own choosing.                             *)
(*                                                                         *)
(* Text is modelled as sequences of one-byte tokens: "P", "3", ... are the *)
(* ASCII characters themselves, "SP", "TAB", "CR" and "LF" are the         *)
(* whitespace bytes, and "xFF" is a byte that is not valid UTF-8.          *)
(* Time is counted in milliseconds.                                        *)
(***************************************************************************)
EXTENDS Integers, Sequences, FiniteSets, TLC

VARIABLES
    pc,          \* position of the host program ("idle" between public calls)
    stack,       \* return positions of the procedures being executed
    op,          \* the public call in progress (or the last one): [name, power, delay, cmd, sw]
    outcome,     \* "none", "running", "ok" or the name of the exception raised
    raised_at,   \* the position of the raise statement that ended the call
    rx,          \* bytes sent by the device and not yet read by the host
    log,         \* commands written and sleeps made by the call (stabilizer polls excluded)
    state,       \* the ToptekState / ToptekSwitchState held by the running code
    da,          \* local da_state / da_sw of get_state / get_switch_state
    first,       \* the state the toggle (or info) in progress read first
    sw,          \* argument of press / switch_on / switch_off
    retval,      \* integer returned by get_tx_power
    errs,        \* list returned by ToptekState.get_errors
    i,           \* loop index of get_flashy_bargraph
    freads,      \* state reads made by the get_flashy_bargraph call in progress
    fslept,      \* time slept by the get_flashy_bargraph call in progress
    set_power,   \* local set_power of set_tx_power
    num_presses, \* local num_presses of set_tx_power
    n,           \* presses made by the loop of set_tx_power
    calls,       \* public calls made so far
    wire,        \* the bytes the device sent in answer to the command of write / query / get_switch
    answer,      \* the value returned by query or readline (text) or by get_switch (a
                 \* boolean); in SpecDecode, what each of the two views raised
    dev,         \* the device: how it answers, and its registers where they are fixed
    unread       \* direct write() calls made so far of a command that has a value line

vars == <<pc, stack, op, outcome, raised_at, rx, log, state, da, first, sw, retval, errs,
          i, freads, fslept, set_power, num_presses, n, calls, wire, answer, dev, unread>>

-----------------------------------------------------------------------------
(* Bounds of the model *)

\* public calls made in one behaviour
MaxCalls == 2
\* longest command given to write() in SpecWrite
MaxCmdLen == 2
\* longest device answer (in bytes) given to write() in SpecWrite
MaxLineLen == 3
\* longest device answer (in bytes) given to query() in SpecQuery
MaxWireLen == 4
\* width of the device's LED register, and largest RS value, in SpecGetState
RegisterBits == 12
MaxDecimal == 10

-----------------------------------------------------------------------------
(* class ToptekSwitches *)

SSB_ON == 1
TX_PA == 2
SET_PWR == 3
RX_LNA == 4
SHOW_SWR == 5
DA_EN == 6

(* timing constants, in milliseconds *)

FLASHY_POLL_DELAY == 50
FLASHY_TOTAL_DELAY == 2000
WRITE_DELAY == 50
PRESS_DELAY == 100
DEFAULT_DELAY == 500
OPEN_DELAY == 100
INTER_PRESS_DELAY == 200
COOLDOWN_DELAY == 2000
MANUAL_DELAY == 200

-----------------------------------------------------------------------------
(* Text *)

Whitespace == {"SP", "TAB", "CR", "LF"}
InvalidBytes == {"xFF"}
DecDigits == <<"0", "1", "2", "3", "4", "5", "6", "7", "8", "9">>
HexDigits == <<"0", "1", "2", "3", "4", "5", "6", "7", "8", "9",
               "A", "B", "C", "D", "E", "F">>
HexLower == <<"0", "1", "2", "3", "4", "5", "6", "7", "8", "9",
              "a", "b", "c", "d", "e", "f">>

Range(s) == {s[k] : k \in 1..Len(s)}

\* f"{int(switch)}": the decimal text of a natural number
RECURSIVE Str(_)
Str(v) == IF v < 10 THEN <<DecDigits[v + 1]>>
                    ELSE Str(v \div 10) \o <<DecDigits[(v % 10) + 1]>>

\* str.strip(): drop the leading and the trailing whitespace
RECURSIVE LStrip(_)
LStrip(s) == IF s # <<>> /\ Head(s) \in Whitespace THEN LStrip(Tail(s)) ELSE s

RECURSIVE RStrip(_)
RStrip(s) == IF s # <<>> /\ s[Len(s)] \in Whitespace
                THEN RStrip(SubSeq(s, 1, Len(s) - 1)) ELSE s

Strip(s) == RStrip(LStrip(s))

\* serial.Serial.readline(): the bytes up to and including the first LF, or,
\* when the read times out first, whatever has arrived
RECURSIVE LineEnd(_, _)
LineEnd(buf, k) == IF k > Len(buf) THEN Len(buf)
                   ELSE IF buf[k] = "LF" THEN k ELSE LineEnd(buf, k + 1)

SerReadline(buf) == SubSeq(buf, 1, LineEnd(buf, 1))
SerRest(buf) == SubSeq(buf, LineEnd(buf, 1) + 1, Len(buf))

\* int(text) and int(text, 16) on text made of digits; IsDec and IsHex say
\* whether the text is a number at all (int raises ValueError when it is not)
DigitVal(c, digits) == CHOOSE k \in 0..(Len(digits) - 1) : digits[k + 1] = c

RECURSIVE IntDec(_)
IntDec(s) == IF s = <<>> THEN 0
             ELSE 10 * IntDec(SubSeq(s, 1, Len(s) - 1)) + DigitVal(s[Len(s)], DecDigits)

IsDec(s) == s # <<>> /\ Range(s) \subseteq Range(DecDigits)

HexVal(c) == IF c \in Range(HexDigits) THEN DigitVal(c, HexDigits)
                                       ELSE DigitVal(c, HexLower)

RECURSIVE IntHex(_)
IntHex(s) == IF s = <<>> THEN 0
             ELSE 16 * IntHex(SubSeq(s, 1, Len(s) - 1)) + HexVal(s[Len(s)])

IsHex(s) == s # <<>> /\ Range(s) \subseteq (Range(HexDigits) \cup Range(HexLower))

-----------------------------------------------------------------------------
(* class ToptekState *)

LedFlags == {"led_10", "led_20", "led_30", "led_40", "led_50", "led_60",
             "led_70", "led_80", "red_en", "lna_on", "tx_pa", "ssb_on", "da_swr"}

ToptekState == [LedFlags -> BOOLEAN]

NoState == [f \in {} |-> FALSE]

\* get_power with a fault: led_60 is tested before led_70
get_power_swapped(s) ==
    IF s.red_en THEN [exc |-> "ToptekException", val |-> 0]
    ELSE [exc |-> "",
          val |-> IF s.led_80 THEN 80
                  ELSE IF s.led_60 THEN 60
                  ELSE IF s.led_70 THEN 70
                  ELSE IF s.led_50 THEN 50
                  ELSE IF s.led_40 THEN 40
                  ELSE IF s.led_30 THEN 30
                  ELSE IF s.led_20 THEN 20
                  ELSE IF s.led_10 THEN 10
                  ELSE 0]

\* the power view with a fault: red_en is not looked at
get_power_unguarded(s) == [exc |-> "", val |-> 0]

\* ToptekState.get_power: [exc, val]
get_power(s) ==
    IF s.red_en THEN [exc |-> "ToptekException", val |-> 0]
    ELSE [exc |-> "",
          val |-> IF s.led_80 THEN 80
                  ELSE IF s.led_70 THEN 70
                  ELSE IF s.led_60 THEN 60
                  ELSE IF s.led_50 THEN 50
                  ELSE IF s.led_40 THEN 40
                  ELSE IF s.led_30 THEN 30
                  ELSE IF s.led_20 THEN 20
                  ELSE IF s.led_10 THEN 10
                  ELSE 0]

\* get_errors with a fault: the bits are not inverted
get_errors_plain(s) ==
    IF ~s.red_en THEN [exc |-> "ToptekException", val |-> <<>>]
    ELSE [exc |-> "",
          val |-> (IF s.led_10 THEN <<"PA FAIL">> ELSE <<>>)
               \o (IF s.led_20 THEN <<"HIGH TEMP">> ELSE <<>>)
               \o (IF s.led_30 THEN <<"DC VOLTAGE">> ELSE <<>>)
               \o (IF s.led_40 THEN <<"OVERDRIVE">> ELSE <<>>)
               \o (IF s.led_50 THEN <<"HIGH SWR">> ELSE <<>>)]

\* ToptekState.get_errors: [exc, val]
get_errors(s) ==
    IF ~s.red_en THEN [exc |-> "ToptekException", val |-> <<>>]
    ELSE [exc |-> "",
          val |-> (IF ~s.led_10 THEN <<"PA FAIL">> ELSE <<>>)
               \o (IF ~s.led_20 THEN <<"HIGH TEMP">> ELSE <<>>)
               \o (IF ~s.led_30 THEN <<"DC VOLTAGE">> ELSE <<>>)
               \o (IF ~s.led_40 THEN <<"OVERDRIVE">> ELSE <<>>)
               \o (IF ~s.led_50 THEN <<"HIGH SWR">> ELSE <<>>)]

\* ToptekState.any_on
any_on(s) == s.led_80 \/ s.led_70 \/ s.led_60 \/ s.led_50
             \/ s.led_40 \/ s.led_30 \/ s.led_20 \/ s.led_10

-----------------------------------------------------------------------------
(* Events recorded in log *)

Tx(c) == [k |-> "tx", c |-> c, t |-> 0]
Sleep(t) == [k |-> "sleep", c |-> <<>>, t |-> t]

-----------------------------------------------------------------------------
(* Transport: Toptek.readline, Toptek.write, Toptek.query.  Each takes the  *)
(* receive buffer and gives the exception raised ("" for none), the value   *)
(* returned and the buffer left.                                            *)

\* Toptek.readline: one line from the port, decoded as UTF-8 and stripped
readline(buf) ==
    LET raw == SerReadline(buf)
    IN  IF Range(raw) \cap InvalidBytes # {}
        THEN [exc |-> "UnicodeDecodeError", line |-> <<>>, rest |-> SerRest(buf)]
        ELSE [exc |-> "", line |-> Strip(raw), rest |-> SerRest(buf)]

\* the comparison of Toptek.write: ret != f"{cmd}"
EchoMismatch(ret, c) == ret # c

\* Toptek.write: the device's answer to the command arrives while the host
\* sleeps; the next line must be the command itself
write(buf, c, reply) ==
    LET r == readline(buf \o reply)
    IN  [exc  |-> IF r.exc # "" THEN r.exc
                  ELSE IF EchoMismatch(r.line, c) THEN "ToptekException"
                  ELSE "",
         rest |-> r.rest,
         evs  |-> <<Tx(c), Sleep(WRITE_DELAY)>>]

\* query with a fault: the answer line is left in the port
query_unread(buf, c, reply) ==
    LET w == write(buf, c, reply)
    IN  [exc |-> w.exc, line |-> <<>>, rest |-> w.rest, evs |-> w.evs]

\* Toptek.query: write, then one more line
query(buf, c, reply) ==
    LET w == write(buf, c, reply)
        r == readline(w.rest)
    IN  IF w.exc # ""
        THEN [exc |-> w.exc, line |-> <<>>, rest |-> w.rest, evs |-> w.evs]
        ELSE [exc |-> r.exc, line |-> r.line, rest |-> r.rest, evs |-> w.evs]

-----------------------------------------------------------------------------
(* The device.  Its firmware is not part of the program: every answer below *)
(* is one the serial line can deliver.                                      *)

EOL == <<"CR", "LF">>
Echo(c) == c \o EOL

\* a line that is no echo of c: only its first byte arrived
Garbled(c) == <<c[1]>> \o EOL

\* answers to RS (read as decimal by get_state, as hex by get_switch_state)
RSValues == {<<"0">>, <<"1">>}
\* answers to R<n>
RnValues == {<<"0">>, <<"1">>}
\* answers to RA: the 12-bit LED register in hex
RAValues == {<<"0">>, <<"8", "0", "0">>, <<"4", "0", "0">>, <<"6", "0", "0">>,
             <<"C", "0", "0">>, <<"5", "0", "0">>,
             <<"4", "0", "2">>, <<"4", "0", "4">>, <<"4", "0", "a">>}

\* answers to EN and DS (a word is written as one token)
EnabledText == <<"Remote", "SP", "keys", "SP", "enabled">>
DisabledText == <<"Remote", "SP", "keys", "SP", "disabled">>

Values(c) == IF c = <<"R", "S">> THEN RSValues
             ELSE IF c = <<"R", "A">> THEN RAValues
             ELSE IF c \in {<<"E", "N">>, <<"D", "S">>} THEN {EnabledText, DisabledText}
             ELSE RnValues

\* the register contents of the device that follows the protocol
ProtocolValues(c) ==
    IF c = <<"R", "A">>
    THEN {<<"0">>, <<"4", "0", "0">>, <<"6", "0", "0">>, <<"C", "0", "0">>,
          <<"5", "0", "0">>, <<"4", "0", "2">>, <<"4", "0", "8">>}
    ELSE Values(c)

\* the commands the device answers with a value line after the echo
HasValue(c) == c[1] = "R" \/ c \in {<<"E", "N">>, <<"D", "S">>}

\* a device on a line with faults, a device that follows the wire protocol,
\* and a device that follows it with registers of known content
Faulty == [mode |-> "faulty", rs |-> 0, ra |-> 0]
Protocol == [mode |-> "protocol", rs |-> 0, ra |-> 0]
Registers(rs, ra) == [mode |-> "registers", rs |-> rs, ra |-> ra]

\* answers to a command that has no value line (S<n>, U<n>, P<n>)
PlainReplies(c) ==
    { Echo(c),                         \* the echo
      <<"SP">> \o c \o <<"LF">>,       \* the echo, padded
      <<>>,                            \* nothing: the read times out
      Garbled(c),                      \* a damaged echo
      c \o <<"xFF">> \o EOL,           \* line noise that is not UTF-8
      <<"?">> \o EOL \o Echo(c) }      \* a stray line before the echo

\* answers to a command that has a value line (R<n>, RS, RA)
QueryReplies(c) ==
    { Echo(c) \o v \o EOL : v \in Values(c) }
    \cup { Echo(c),                    \* the value line is missing
           Echo(c) \o <<"x">> \o EOL,  \* the value is no number
           Echo(c) \o <<"xFF">> \o EOL,
           <<>>,
           Garbled(c) \o <<"0">> \o EOL,
           c \o <<"xFF">> \o EOL,
           <<"?">> \o EOL \o Echo(c) \o <<"0">> \o EOL }

\* the hexadecimal text the device prints for a register
RECURSIVE HexStr(_)
HexStr(v) == IF v < 16 THEN <<HexDigits[v + 1]>>
                       ELSE HexStr(v \div 16) \o <<HexDigits[(v % 16) + 1]>>

\* the value line of a device whose registers are known
RegisterText(c) == IF c = <<"R", "S">> THEN Str(dev.rs)
                   ELSE IF c = <<"R", "A">> THEN HexStr(dev.ra)
                   ELSE Str(dev.rs)

\* what the device in use answers to a command without a value line
PlainAnswers(c) == IF dev.mode = "faulty" THEN PlainReplies(c) ELSE {Echo(c)}

\* what the device in use answers to a command with a value line
QueryAnswers(c) ==
    IF dev.mode = "faulty" THEN QueryReplies(c)
    ELSE IF dev.mode = "protocol" THEN { Echo(c) \o v \o EOL : v \in ProtocolValues(c) }
    ELSE { Echo(c) \o RegisterText(c) \o EOL }

-----------------------------------------------------------------------------
(* Control flow of the host program *)

ExceptionNames == {"ToptekException", "ToptekValueException",
                   "UnicodeDecodeError", "ValueError"}

\* the stabilizer is executing (its state reads are not recorded in log)
InFlashy == "fb_check" \in Range(stack)

Logged(evs) == IF InFlashy THEN log ELSE log \o evs

\* an exception leaves every frame (nothing in the program catches one), and
\* the locals of the frames go with them
Raise(e) ==
    /\ pc' = "idle"
    /\ stack' = <<>>
    /\ outcome' = e
    /\ raised_at' = pc
    /\ state' = NoState
    /\ da' = 0 /\ sw' = 0 /\ retval' = 0 /\ errs' = <<>>
    /\ i' = 0 /\ freads' = 0 /\ fslept' = 0
    /\ set_power' = 0 /\ num_presses' = 0 /\ n' = 0

\* return to the caller, or to the user when the public call returns
Return ==
    /\ IF stack = <<>>
       THEN pc' = "idle" /\ stack' = <<>> /\ outcome' = "ok"
       ELSE pc' = Head(stack) /\ stack' = Tail(stack) /\ UNCHANGED outcome
    /\ UNCHANGED raised_at

\* call the procedure entered at e, to continue at r
CallProc(e, r) ==
    /\ pc' = e
    /\ stack' = <<r>> \o stack
    /\ UNCHANGED <<outcome, raised_at>>

\* go on at position l of the same procedure
Goto(l) ==
    /\ pc' = l
    /\ UNCHANGED <<stack, outcome, raised_at>>

NoOp == [name |-> "", power |-> 0, delay |-> 0, cmd |-> <<>>, sw |-> 0]

\* what a public call starts from: fresh locals, the port as it was left
Enter(o) ==
    /\ pc = "idle"
    /\ calls < MaxCalls
    /\ calls' = calls + 1
    /\ op' = o
    /\ outcome' = "running"
    /\ raised_at' = ""
    /\ log' = <<>>
    /\ state' = NoState
    /\ first' = NoState
    /\ da' = 0 /\ sw' = o.sw /\ retval' = 0 /\ errs' = <<>>
    /\ i' = 0 /\ freads' = 0 /\ fslept' = 0
    /\ set_power' = 0 /\ num_presses' = 0 /\ n' = 0
    /\ wire' = <<>> /\ answer' = <<>>
    /\ UNCHANGED <<rx, dev, unread>>

-----------------------------------------------------------------------------
(* State decoder *)

\* bool(value & mask), mask a power of two
Bit(v, mask) == (v \div mask) % 2 = 1

\* the decoder with a fault: the masks of lna_on and tx_pa changed over
LedStateSwapped(v, d) ==
    [led_10 |-> Bit(v, 1),    led_20 |-> Bit(v, 2),    led_30 |-> Bit(v, 4),
     led_40 |-> Bit(v, 8),    led_50 |-> Bit(v, 16),   led_60 |-> Bit(v, 32),
     led_70 |-> Bit(v, 64),   led_80 |-> Bit(v, 128),  red_en |-> Bit(v, 256),
     lna_on |-> Bit(v, 1024), tx_pa  |-> Bit(v, 512),  ssb_on |-> Bit(v, 2048),
     da_swr |-> d # 0]

\* the ToptekState built by get_state from the RA register and da_state
LedState(v, d) ==
    [led_10 |-> Bit(v, 1),    led_20 |-> Bit(v, 2),    led_30 |-> Bit(v, 4),
     led_40 |-> Bit(v, 8),    led_50 |-> Bit(v, 16),   led_60 |-> Bit(v, 32),
     led_70 |-> Bit(v, 64),   led_80 |-> Bit(v, 128),  red_en |-> Bit(v, 256),
     lna_on |-> Bit(v, 512),  tx_pa  |-> Bit(v, 1024), ssb_on |-> Bit(v, 2048),
     da_swr |-> d # 0]

\* the ToptekSwitchState built by get_switch_state from the RS register and da_sw
SwitchState(v, d) ==
    [sw_ssb_on   |-> Bit(v, 16), sw_tx_pa  |-> Bit(v, 32), sw_set_pwr |-> Bit(v, 4),
     sw_rx_lna   |-> Bit(v, 8),  sw_show_swr |-> Bit(v, 1), sw_da_on |-> d # 0]

\* get_state, first query: da_state = int(self.query("RS"))
GetStateRS ==
    /\ pc = "gs_rs"
    /\ \E reply \in QueryAnswers(<<"R", "S">>) :
         LET q == query(rx, <<"R", "S">>, reply)
         IN  /\ rx' = q.rest
             /\ log' = Logged(q.evs)
             /\ IF q.exc # "" THEN Raise(q.exc)
                ELSE IF ~IsDec(q.line) THEN Raise("ValueError")
                ELSE /\ da' = IntDec(q.line)
                     /\ Goto("gs_ra")
                     /\ UNCHANGED <<state, sw, retval, errs, i, freads, fslept,
                                    set_power, num_presses, n>>
    /\ UNCHANGED <<op, first, calls, wire, answer, dev, unread>>

\* get_state, second query: toptek_state = int(self.query("RA"), 16), and the return
GetStateRA ==
    /\ pc = "gs_ra"
    /\ \E reply \in QueryAnswers(<<"R", "A">>) :
         LET q == query(rx, <<"R", "A">>, reply)
         IN  /\ rx' = q.rest
             /\ log' = Logged(q.evs)
             /\ IF q.exc # "" THEN Raise(q.exc)
                ELSE IF ~IsHex(q.line) THEN Raise("ValueError")
                ELSE /\ state' = LedState(IntHex(q.line), da)
                     /\ da' = 0
                     /\ Return
                     /\ UNCHANGED <<sw, retval, errs, i, freads, fslept,
                                    set_power, num_presses, n>>
    /\ UNCHANGED <<op, first, calls, wire, answer, dev, unread>>

\* get_switch_state, first query: da_sw = int(self.query("R6"))
GetSwitchStateR6 ==
    /\ pc = "gss_r6"
    /\ \E reply \in QueryAnswers(<<"R", "6">>) :
         LET q == query(rx, <<"R", "6">>, reply)
         IN  /\ rx' = q.rest
             /\ log' = Logged(q.evs)
             /\ IF q.exc # "" THEN Raise(q.exc)
                ELSE IF ~IsDec(q.line) THEN Raise("ValueError")
                ELSE /\ da' = IntDec(q.line)
                     /\ Goto("gss_rs")
                     /\ UNCHANGED <<state, sw, retval, errs, i, freads, fslept,
                                    set_power, num_presses, n>>
    /\ UNCHANGED <<op, first, calls, wire, answer, dev, unread>>

\* get_switch_state, second query: toptek_sw = int(self.query("RS"), 16), and the return
GetSwitchStateRS ==
    /\ pc = "gss_rs"
    /\ \E reply \in QueryAnswers(<<"R", "S">>) :
         LET q == query(rx, <<"R", "S">>, reply)
         IN  /\ rx' = q.rest
             /\ log' = Logged(q.evs)
             /\ IF q.exc # "" THEN Raise(q.exc)
                ELSE IF ~IsHex(q.line) THEN Raise("ValueError")
                ELSE /\ state' = SwitchState(IntHex(q.line), da)
                     /\ da' = 0
                     /\ Return
                     /\ UNCHANGED <<sw, retval, errs, i, freads, fslept,
                                    set_power, num_presses, n>>
    /\ UNCHANGED <<op, first, calls, wire, answer, dev, unread>>

-----------------------------------------------------------------------------
(* Switch actuator *)

\* the commands that actuate a switch: S<n>, U<n>, P<n>
IsActuation(e) == e.k = "tx" /\ e.c # <<>> /\ e.c[1] \in {"S", "U", "P"}
Actuations(l) == {k \in 1..Len(l) : IsActuation(l[k])}

\* Toptek.press: write(f"P{int(switch)}"), then sleep 0.1
Press ==
    /\ pc = "press"
    /\ \E reply \in PlainAnswers(<<"P">> \o Str(sw)) :
         LET w == write(rx, <<"P">> \o Str(sw), reply)
         IN  /\ rx' = w.rest
             /\ IF w.exc # ""
                THEN Raise(w.exc) /\ log' = log \o w.evs
                ELSE /\ log' = log \o w.evs \o <<Sleep(PRESS_DELAY)>>
                     /\ sw' = 0
                     /\ Return
                     /\ UNCHANGED <<state, da, retval, errs, i, freads, fslept,
                                    set_power, num_presses, n>>
    /\ UNCHANGED <<op, first, calls, wire, answer, dev, unread>>

\* Toptek.switch_on: write(f"S{int(switch)}")
SwitchOn ==
    /\ pc = "switch_on"
    /\ \E reply \in PlainAnswers(<<"S">> \o Str(sw)) :
         LET w == write(rx, <<"S">> \o Str(sw), reply)
         IN  /\ rx' = w.rest
             /\ log' = log \o w.evs
             /\ IF w.exc # ""
                THEN Raise(w.exc)
                ELSE /\ sw' = 0
                     /\ Return
                     /\ UNCHANGED <<state, da, retval, errs, i, freads, fslept,
                                    set_power, num_presses, n>>
    /\ UNCHANGED <<op, first, calls, wire, answer, dev, unread>>

\* Toptek.switch_off: write(f"U{int(switch)}")
SwitchOff ==
    /\ pc = "switch_off"
    /\ \E reply \in PlainAnswers(<<"U">> \o Str(sw)) :
         LET w == write(rx, <<"U">> \o Str(sw), reply)
         IN  /\ rx' = w.rest
             /\ log' = log \o w.evs
             /\ IF w.exc # ""
                THEN Raise(w.exc)
                ELSE /\ sw' = 0
                     /\ Return
                     /\ UNCHANGED <<state, da, retval, errs, i, freads, fslept,
                                    set_power, num_presses, n>>
    /\ UNCHANGED <<op, first, calls, wire, answer, dev, unread>>

-----------------------------------------------------------------------------
(* Stabilizer: Toptek.get_flashy_bargraph *)

\* the range with a fault: its end included
FlashyPollsInclusive == FLASHY_TOTAL_DELAY \div FLASHY_POLL_DELAY + 1

\* range(int(FLASHY_TOTAL_DELAY / FLASHY_POLL_DELAY))
FlashyPolls == FLASHY_TOTAL_DELAY \div FLASHY_POLL_DELAY

\* the sleep made once an LED is seen lit at poll idx
FlashyRemainder(idx) == FLASHY_TOTAL_DELAY - idx * FLASHY_POLL_DELAY

\* top of the loop: sleep one poll interval, then read the state (the reading
\* of the poll before is not used again: every iteration reads anew before it
\* tests, and the return follows the last read)
FlashyLoop ==
    /\ pc = "fb_loop"
    /\ fslept' = fslept + FLASHY_POLL_DELAY
    /\ state' = NoState
    /\ CallProc("gs_rs", "fb_check")
    /\ UNCHANGED <<op, rx, log, da, first, sw, retval, errs, i, freads,
                   set_power, num_presses, n, calls, wire, answer, dev, unread>>

\* after the read: break once an LED is lit, else next iteration or end of range
FlashyCheck ==
    /\ pc = "fb_check"
    /\ freads' = freads + 1
    /\ IF any_on(state)
       THEN /\ fslept' = fslept + FlashyRemainder(i)
            /\ Goto("fb_ret")
            /\ UNCHANGED i
       ELSE IF i + 1 < FlashyPolls
       THEN /\ i' = i + 1
            /\ Goto("fb_loop")
            /\ UNCHANGED fslept
       ELSE /\ Goto("fb_ret")
            /\ UNCHANGED <<i, fslept>>
    /\ UNCHANGED <<op, rx, log, state, da, first, sw, retval, errs,
                   set_power, num_presses, n, calls, wire, answer, dev, unread>>

\* return state
FlashyReturn ==
    /\ pc = "fb_ret"
    /\ Return
    /\ i' = 0 /\ freads' = 0 /\ fslept' = 0
    /\ UNCHANGED <<op, rx, log, state, da, first, sw, retval, errs,
                   set_power, num_presses, n, calls, wire, answer, dev, unread>>

\* the public call get_flashy_bargraph()
get_flashy_bargraph ==
    /\ Enter([NoOp EXCEPT !.name = "get_flashy_bargraph"])
    /\ stack' = <<>>
    /\ pc' = "fb_loop"

-----------------------------------------------------------------------------
(* Power controller: Toptek.get_tx_power, Toptek.set_tx_power *)

\* the public call get_tx_power(): state = self.get_state()
get_tx_power ==
    /\ Enter([NoOp EXCEPT !.name = "get_tx_power"])
    /\ stack' = <<"gtp_check">>
    /\ pc' = "gs_rs"

\* the test with a fault: the PA is never found off
PaOffNever(st) == FALSE

\* get_tx_power: "if not state.tx_pa"
PaOff(st) == ~st.tx_pa

\* if not state.tx_pa: return 0; else self.press(ToptekSwitches.SET_PWR)
GetTxPowerCheck ==
    /\ pc = "gtp_check"
    /\ state' = NoState
    /\ IF PaOff(state)
       THEN /\ retval' = 0
            /\ Return
            /\ UNCHANGED sw
       ELSE /\ sw' = SET_PWR
            /\ CallProc("press", "gtp_flashy")
            /\ UNCHANGED retval
    /\ UNCHANGED <<op, rx, log, da, first, errs, i, freads, fslept,
                   set_power, num_presses, n, calls, wire, answer, dev, unread>>

\* self.get_flashy_bargraph()
GetTxPowerFlashy ==
    /\ pc = "gtp_flashy"
    /\ CallProc("fb_loop", "gtp_ret")
    /\ i' = 0 /\ freads' = 0 /\ fslept' = 0
    /\ UNCHANGED <<op, rx, log, state, da, first, sw, retval, errs,
                   set_power, num_presses, n, calls, wire, answer, dev, unread>>

\* return <stabilized state>.get_power()
GetTxPowerReturn ==
    /\ pc = "gtp_ret"
    /\ LET p == get_power(state)
       IN  IF p.exc # "" THEN Raise(p.exc)
           ELSE /\ retval' = p.val
                /\ state' = NoState
                /\ Return
                /\ UNCHANGED <<da, sw, errs, i, freads, fslept,
                               set_power, num_presses, n>>
    /\ UNCHANGED <<op, rx, log, first, calls, wire, answer, dev, unread>>

\* the validation with a fault: a range test in place of the membership test
InvalidPowerRange(p) == p < 20 \/ p > 80

\* set_tx_power: "power not in [20, 40, 60, 80]"
InvalidPower(p) == p \notin {20, 40, 60, 80}

\* the precondition with a fault: the PA is never found off
PaOffForSetNever(st) == FALSE

\* set_tx_power: "if not state.tx_pa"
PaOffForSet(st) == ~st.tx_pa

\* the press count computed by set_tx_power
NumPresses(cur, target) ==
    IF cur < target THEN (target - cur) \div 20
                    ELSE ((80 - cur) \div 20) + (target \div 20)

\* the arguments set_tx_power is called with
PowerArgs == {20, 40, 60, 80, 41, 0}

\* the public call set_tx_power(power)
set_tx_power ==
    /\ \E p \in PowerArgs : Enter([NoOp EXCEPT !.name = "set_tx_power", !.power = p])
    /\ stack' = <<>>
    /\ pc' = "stp_entry"

\* if power not in [20, 40, 60, 80]: raise; state = self.get_state()
SetTxPowerValidate ==
    /\ pc = "stp_entry"
    /\ IF InvalidPower(op.power)
       THEN Raise("ToptekValueException")
       ELSE /\ CallProc("gs_rs", "stp_check")
            /\ UNCHANGED <<state, da, sw, retval, errs, i, freads, fslept,
                           set_power, num_presses, n>>
    /\ UNCHANGED <<op, rx, log, first, calls, wire, answer, dev, unread>>

\* if not state.tx_pa: raise; set_power = self.get_tx_power()
SetTxPowerCheck ==
    /\ pc = "stp_check"
    /\ IF PaOffForSet(state)
       THEN Raise("ToptekException")
       ELSE /\ pc' = "gs_rs"
            /\ stack' = <<"gtp_check", "stp_compute">> \o stack
            /\ state' = NoState
            /\ UNCHANGED <<outcome, raised_at>>
            /\ UNCHANGED <<da, sw, retval, errs, i, freads, fslept,
                           set_power, num_presses, n>>
    /\ UNCHANGED <<op, rx, log, first, calls, wire, answer, dev, unread>>

\* num_presses; if num_presses == 0: return; self.press(SET_PWR)
SetTxPowerCompute ==
    /\ pc = "stp_compute"
    /\ set_power' = retval
    /\ num_presses' = NumPresses(retval, op.power)
    /\ IF NumPresses(retval, op.power) = 0
       THEN Return /\ UNCHANGED sw
       ELSE sw' = SET_PWR /\ CallProc("press", "stp_opened")
    /\ UNCHANGED <<op, rx, log, state, da, first, retval, errs, i, freads, fslept,
                   n, calls, wire, answer, dev, unread>>

\* time.sleep(0.1) after the opening press
SetTxPowerOpened ==
    /\ pc = "stp_opened"
    /\ log' = log \o <<Sleep(OPEN_DELAY)>>
    /\ n' = 0
    /\ Goto("stp_loop")
    /\ UNCHANGED <<op, rx, state, da, first, sw, retval, errs, i,
                   freads, fslept, set_power, num_presses, calls, wire, answer, dev, unread>>

\* the loop with a fault: one round too many
MorePressesInclusive(done, total) == done <= total

\* for _ in range(num_presses): a round is left after done rounds
MorePresses(done, total) == done < total

\* for _ in range(num_presses): sleep 0.2, press; then sleep 2 and get_tx_power()
SetTxPowerLoop ==
    /\ pc = "stp_loop"
    /\ IF MorePresses(n, num_presses)
       THEN /\ log' = log \o <<Sleep(INTER_PRESS_DELAY)>>
            /\ n' = n + 1
            /\ sw' = SET_PWR
            /\ CallProc("press", "stp_loop")
       ELSE /\ log' = log \o <<Sleep(COOLDOWN_DELAY)>>
            /\ pc' = "gs_rs"
            /\ stack' = <<"gtp_check", "stp_verify">> \o stack
            /\ UNCHANGED <<n, sw, outcome, raised_at>>
    /\ UNCHANGED <<op, rx, state, da, first, retval, errs, i, freads, fslept,
                   set_power, num_presses, calls, wire, answer, dev, unread>>

\* set_tx_power: "if actual_set != power"
NotSet(actual, target) == actual # target

\* actual_set = <returned by get_tx_power>; if actual_set != power: raise
SetTxPowerVerify ==
    /\ pc = "stp_verify"
    /\ IF NotSet(retval, op.power)
       THEN Raise("ToptekException")
       ELSE /\ Return
            /\ UNCHANGED <<state, da, sw, retval, errs, i, freads, fslept,
                           set_power, num_presses, n>>
    /\ UNCHANGED <<op, rx, log, first, calls, wire, answer, dev, unread>>

-----------------------------------------------------------------------------
(* High-level toggles.  Each function is one row: the flag it reads, the    *)
(* value it wants, whether it needs the PA on, how it reads the state, how  *)
(* it actuates which switch, and whether it sleeps before the re-read.      *)

pa_on ==
    [flag |-> "tx_pa", target |-> TRUE, need_pa |-> FALSE, reader |-> "gs_rs",
     act |-> "press", switch |-> TX_PA, settle |-> TRUE]
pa_off ==
    [flag |-> "tx_pa", target |-> FALSE, need_pa |-> FALSE, reader |-> "gs_rs",
     act |-> "press", switch |-> TX_PA, settle |-> FALSE]
lna_on ==
    [flag |-> "lna_on", target |-> TRUE, need_pa |-> FALSE, reader |-> "gs_rs",
     act |-> "press", switch |-> RX_LNA, settle |-> TRUE]
lna_off ==
    [flag |-> "lna_on", target |-> FALSE, need_pa |-> FALSE, reader |-> "gs_rs",
     act |-> "press", switch |-> RX_LNA, settle |-> FALSE]
ssb_on ==
    [flag |-> "ssb_on", target |-> TRUE, need_pa |-> TRUE, reader |-> "gs_rs",
     act |-> "press", switch |-> SSB_ON, settle |-> TRUE]
ssb_off ==
    [flag |-> "ssb_on", target |-> FALSE, need_pa |-> TRUE, reader |-> "gs_rs",
     act |-> "press", switch |-> SSB_ON, settle |-> FALSE]
da_on ==
    [flag |-> "sw_da_on", target |-> TRUE, need_pa |-> FALSE, reader |-> "gss_r6",
     act |-> "switch_on", switch |-> DA_EN, settle |-> FALSE]
da_off ==
    [flag |-> "sw_da_on", target |-> FALSE, need_pa |-> FALSE, reader |-> "gss_r6",
     act |-> "switch_off", switch |-> DA_EN, settle |-> FALSE]

ToggleNames == {"pa_on", "pa_off", "lna_on", "lna_off",
                "ssb_on", "ssb_off", "da_on", "da_off"}

Toggle(name) ==
    CASE name = "pa_on"   -> pa_on
      [] name = "pa_off"  -> pa_off
      [] name = "lna_on"  -> lna_on
      [] name = "lna_off" -> lna_off
      [] name = "ssb_on"  -> ssb_on
      [] name = "ssb_off" -> ssb_off
      [] name = "da_on"   -> da_on
      [] name = "da_off"  -> da_off

\* the settle delays the callers pass (pa_delay, lna_delay, ssb_delay)
DelayArgs == {DEFAULT_DELAY, 2 * DEFAULT_DELAY}

\* the SSB guard with a fault: the PA is not looked at
BlockedNever(row, st) == FALSE

\* ssb_on / ssb_off: "if not state.tx_pa: logger.warning(...); return"
Blocked(row, st) == row.need_pa /\ ~st.tx_pa

\* the first test with a fault: the flag is tested for being on, whatever is wanted
AlreadyOn(row, st) == st[row.flag]

\* the first test of a toggle: the flag is already what is wanted
AlreadyAtTarget(row, st) == st[row.flag] = row.target

\* the test after the re-read with a fault: the re-read is not looked at
ConfirmedAlways(row, st) == TRUE

\* the test after the re-read: the flag is now what is wanted
Confirmed(row, st) == st[row.flag] = row.target

\* a public call of one of the eight toggles: state = self.get_state() (or
\* get_switch_state())
CallToggle ==
    /\ \E name \in ToggleNames :
         \E d \in (IF Toggle(name).settle THEN DelayArgs ELSE {0}) :
            /\ Enter([NoOp EXCEPT !.name = name, !.delay = d])
            /\ pc' = Toggle(name).reader
    /\ stack' = <<"tg_check">>

\* the first test, and the actuation when the flag is not at its target
ToggleCheck ==
    /\ pc = "tg_check"
    /\ first' = state
    /\ LET row == Toggle(op.name)
       IN  IF Blocked(row, state) \/ AlreadyAtTarget(row, state)
           THEN Return /\ UNCHANGED sw
           ELSE sw' = row.switch /\ CallProc(row.act, "tg_settle")
    /\ UNCHANGED <<op, rx, log, state, da, retval, errs, i, freads, fslept,
                   set_power, num_presses, n, calls, wire, answer, dev, unread>>

\* after the actuation: the settle delay where there is one, then the re-read
ToggleSettle ==
    /\ pc = "tg_settle"
    /\ LET row == Toggle(op.name)
       IN  /\ log' = IF row.settle THEN log \o <<Sleep(op.delay)>> ELSE log
           /\ CallProc(row.reader, "tg_verify")
    /\ UNCHANGED <<op, rx, state, da, first, sw, retval, errs, i, freads, fslept,
                   set_power, num_presses, n, calls, wire, answer, dev, unread>>

\* the test after the re-read
ToggleVerify ==
    /\ pc = "tg_verify"
    /\ IF ~Confirmed(Toggle(op.name), state)
       THEN Raise("ToptekException")
       ELSE /\ Return
            /\ UNCHANGED <<state, da, sw, retval, errs, i, freads, fslept,
                           set_power, num_presses, n>>
    /\ UNCHANGED <<op, rx, log, first, calls, wire, answer, dev, unread>>

-----------------------------------------------------------------------------
(* The program in use: public calls one after the other on one port *)

Init ==
    /\ pc = "idle"
    /\ stack = <<>>
    /\ op = NoOp
    /\ outcome = "none"
    /\ raised_at = ""
    /\ rx = <<>>
    /\ log = <<>>
    /\ state = NoState
    /\ first = NoState
    /\ da = 0 /\ sw = 0 /\ retval = 0 /\ errs = <<>>
    /\ i = 0 /\ freads = 0 /\ fslept = 0
    /\ set_power = 0 /\ num_presses = 0 /\ n = 0
    /\ calls = 0
    /\ wire = <<>>
    /\ answer = <<>>
    /\ dev = Faulty
    /\ unread = 0

Next ==
    \/ CallToggle \/ ToggleCheck \/ ToggleSettle \/ ToggleVerify
    \/ get_tx_power \/ GetTxPowerCheck \/ GetTxPowerFlashy \/ GetTxPowerReturn
    \/ set_tx_power \/ SetTxPowerValidate \/ SetTxPowerCheck \/ SetTxPowerCompute
    \/ SetTxPowerOpened \/ SetTxPowerLoop \/ SetTxPowerVerify
    \/ get_flashy_bargraph \/ FlashyLoop \/ FlashyCheck \/ FlashyReturn
    \/ GetStateRS \/ GetStateRA \/ GetSwitchStateR6 \/ GetSwitchStateRS
    \/ Press \/ SwitchOn \/ SwitchOff

Spec == Init /\ [][Next]_vars

-----------------------------------------------------------------------------
(* ToptekState's views, applied to every state a read can build *)

InitDecode ==
    /\ state \in ToptekState
    /\ pc = "decode"
    /\ stack = <<>>
    /\ op = NoOp
    /\ outcome = "none"
    /\ raised_at = ""
    /\ rx = <<>>
    /\ log = <<>>
    /\ first = NoState
    /\ da = 0 /\ sw = 0 /\ retval = 0 /\ errs = <<>>
    /\ i = 0 /\ freads = 0 /\ fslept = 0
    /\ set_power = 0 /\ num_presses = 0 /\ n = 0
    /\ calls = 0
    /\ wire = <<>>
    /\ answer = <<>>
    /\ dev = Faulty
    /\ unread = 0

\* state.get_power()
DecodePower ==
    /\ pc = "decode"
    /\ LET p == get_power(state)
       IN  /\ outcome' = IF p.exc # "" THEN p.exc ELSE "ok"
           /\ retval' = p.val
    /\ pc' = "power"
    /\ UNCHANGED <<stack, op, raised_at, rx, log, state, da, first, sw, errs,
                   i, freads, fslept, set_power, num_presses, n, calls, wire, answer, dev, unread>>

\* state.get_errors()
DecodeErrors ==
    /\ pc = "decode"
    /\ LET e == get_errors(state)
       IN  /\ outcome' = IF e.exc # "" THEN e.exc ELSE "ok"
           /\ errs' = e.val
    /\ pc' = "errors"
    /\ UNCHANGED <<stack, op, raised_at, rx, log, state, da, first, sw, retval,
                   i, freads, fslept, set_power, num_presses, n, calls, wire, answer, dev, unread>>

\* state.get_power() and state.get_errors() of the same state, one after the other
DecodeBoth ==
    /\ pc = "decode"
    /\ LET p == get_power(state)
           e == get_errors(state)
       IN  /\ answer' = [power |-> p.exc, errors |-> e.exc]
           /\ retval' = p.val
           /\ errs' = e.val
    /\ pc' = "both"
    /\ UNCHANGED <<stack, op, outcome, raised_at, rx, log, state, da, first, sw,
                   i, freads, fslept, set_power, num_presses, n, calls, wire, dev, unread>>

NextDecode == DecodePower \/ DecodeErrors \/ DecodeBoth

SpecDecode == InitDecode /\ [][NextDecode]_vars

-----------------------------------------------------------------------------
(* Toptek.write, applied to every command and every answer of bounded length *)

CmdAlphabet == {"P", "3"}
WireAlphabet == {"P", "3", "SP", "LF", "xFF"}

\* the sequences over alphabet a of length lo..hi
SeqsOf(a, lo, hi) == UNION {[1..k -> a] : k \in lo..hi}

\* what the device in use sends after command c: any bytes up to maxlen on
\* the line with faults, else what the protocol has for c
DeviceAnswers(c, maxlen) ==
    IF dev.mode = "faulty" THEN SeqsOf(WireAlphabet, 0, maxlen)
    ELSE IF HasValue(c) THEN QueryAnswers(c)
    ELSE PlainAnswers(c)

InitWrite ==
    /\ op \in {[NoOp EXCEPT !.name = "write", !.cmd = c] :
                 c \in SeqsOf(CmdAlphabet, 1, MaxCmdLen)}
    /\ pc = "write"
    /\ stack = <<>>
    /\ outcome = "running"
    /\ raised_at = ""
    /\ rx = <<>>
    /\ log = <<>>
    /\ state = NoState
    /\ first = NoState
    /\ da = 0 /\ sw = 0 /\ retval = 0 /\ errs = <<>>
    /\ i = 0 /\ freads = 0 /\ fslept = 0
    /\ set_power = 0 /\ num_presses = 0 /\ n = 0
    /\ calls = 1
    /\ wire = <<>>
    /\ answer = <<>>
    /\ dev = Faulty
    /\ unread = 0

\* the public call write(cmd)
Write ==
    /\ pc = "write"
    /\ unread' = IF HasValue(op.cmd) THEN unread + 1 ELSE unread
    /\ \E reply \in DeviceAnswers(op.cmd, MaxLineLen) :
         LET w == write(rx, op.cmd, reply)
         IN  /\ wire' = reply
             /\ rx' = w.rest
             /\ log' = log \o w.evs
             /\ outcome' = IF w.exc # "" THEN w.exc ELSE "ok"
             /\ raised_at' = IF w.exc # "" THEN "write" ELSE ""
    /\ pc' = "idle"
    /\ UNCHANGED <<stack, op, state, da, first, sw, retval, errs,
                   i, freads, fslept, set_power, num_presses, n, calls, answer, dev>>

NextWrite == Write

SpecWrite == InitWrite /\ [][NextWrite]_vars

-----------------------------------------------------------------------------
(* Toptek.get_state, applied to every content of the device's registers *)

RECURSIVE Pow2(_)
Pow2(k) == IF k = 0 THEN 1 ELSE 2 * Pow2(k - 1)

InitGetState ==
    /\ dev \in {Registers(d, v) : d \in 0..MaxDecimal, v \in 0..(Pow2(RegisterBits) - 1)}
    /\ op = [NoOp EXCEPT !.name = "get_state"]
    /\ pc = "gs_rs"
    /\ stack = <<>>
    /\ outcome = "running"
    /\ raised_at = ""
    /\ rx = <<>>
    /\ log = <<>>
    /\ state = NoState
    /\ first = NoState
    /\ da = 0 /\ sw = 0 /\ retval = 0 /\ errs = <<>>
    /\ i = 0 /\ freads = 0 /\ fslept = 0
    /\ set_power = 0 /\ num_presses = 0 /\ n = 0
    /\ calls = 1
    /\ wire = <<>>
    /\ answer = <<>>
    /\ unread = 0

NextGetState == GetStateRS \/ GetStateRA

SpecGetState == InitGetState /\ [][NextGetState]_vars

-----------------------------------------------------------------------------
(* Toptek.query, applied to every command and every answer of bounded length *)

InitQuery ==
    /\ op \in {[NoOp EXCEPT !.name = "query", !.cmd = c] :
                 c \in SeqsOf(CmdAlphabet, 1, MaxCmdLen)}
    /\ pc = "query"
    /\ stack = <<>>
    /\ outcome = "running"
    /\ raised_at = ""
    /\ rx = <<>>
    /\ log = <<>>
    /\ state = NoState
    /\ first = NoState
    /\ da = 0 /\ sw = 0 /\ retval = 0 /\ errs = <<>>
    /\ i = 0 /\ freads = 0 /\ fslept = 0
    /\ set_power = 0 /\ num_presses = 0 /\ n = 0
    /\ calls = 1
    /\ wire = <<>>
    /\ answer = <<>>
    /\ dev = Faulty
    /\ unread = 0

\* the public call query(cmd)
Query ==
    /\ pc = "query"
    /\ \E reply \in DeviceAnswers(op.cmd, MaxWireLen) :
         LET q == query(rx, op.cmd, reply)
         IN  /\ wire' = reply
             /\ rx' = q.rest
             /\ log' = log \o q.evs
             /\ answer' = q.line
             /\ outcome' = IF q.exc # "" THEN q.exc ELSE "ok"
             /\ raised_at' = IF q.exc # "" THEN "query" ELSE ""
    /\ pc' = "idle"
    /\ UNCHANGED <<stack, op, state, da, first, sw, retval, errs,
                   i, freads, fslept, set_power, num_presses, n, calls, dev, unread>>

NextQuery == Query

SpecQuery == InitQuery /\ [][NextQuery]_vars

-----------------------------------------------------------------------------
(* The whole public interface, on a device that follows the wire protocol *)

Switches == {SSB_ON, TX_PA, SET_PWR, RX_LNA, SHOW_SWR, DA_EN}

\* the commands given to write() and query() called directly
PublicCmds == {<<"P", "3">>, <<"S", "6">>, <<"R", "S">>, <<"R", "6">>}

\* the public calls get_state() and get_switch_state()
get_state ==
    /\ Enter([NoOp EXCEPT !.name = "get_state"])
    /\ stack' = <<>>
    /\ pc' = "gs_rs"

get_switch_state ==
    /\ Enter([NoOp EXCEPT !.name = "get_switch_state"])
    /\ stack' = <<>>
    /\ pc' = "gss_r6"

\* the public calls press(switch), switch_on(switch), switch_off(switch)
press ==
    /\ \E k \in Switches : Enter([NoOp EXCEPT !.name = "press", !.sw = k])
    /\ stack' = <<>>
    /\ pc' = "press"

switch_on ==
    /\ \E k \in Switches : Enter([NoOp EXCEPT !.name = "switch_on", !.sw = k])
    /\ stack' = <<>>
    /\ pc' = "switch_on"

switch_off ==
    /\ \E k \in Switches : Enter([NoOp EXCEPT !.name = "switch_off", !.sw = k])
    /\ stack' = <<>>
    /\ pc' = "switch_off"

\* the public call press_manual(switch): self.switch_on(switch)
press_manual ==
    /\ \E k \in Switches :
         Enter([NoOp EXCEPT !.name = "press_manual", !.sw = k, !.delay = MANUAL_DELAY])
    /\ stack' = <<"pm_hold">>
    /\ pc' = "switch_on"

\* time.sleep(delay); self.switch_off(switch)
PressManualHold ==
    /\ pc = "pm_hold"
    /\ log' = log \o <<Sleep(op.delay)>>
    /\ sw' = op.sw
    /\ Goto("switch_off")
    /\ UNCHANGED <<op, rx, state, da, first, retval, errs, i, freads, fslept,
                   set_power, num_presses, n, calls, wire, answer, dev, unread>>

\* the public calls da_on_fast() and da_off_fast()
da_on_fast ==
    /\ Enter([NoOp EXCEPT !.name = "da_on_fast", !.sw = DA_EN])
    /\ stack' = <<>>
    /\ pc' = "switch_on"

da_off_fast ==
    /\ Enter([NoOp EXCEPT !.name = "da_off_fast", !.sw = DA_EN])
    /\ stack' = <<>>
    /\ pc' = "switch_off"

\* bool(text): a str is true when it is not empty
Bool(text) == text # <<>>

\* the public call get_switch(switch)
get_switch ==
    /\ \E k \in Switches : Enter([NoOp EXCEPT !.name = "get_switch", !.sw = k])
    /\ stack' = <<>>
    /\ pc' = "get_switch"

\* return bool(self.query(f"R{int(switch)}"))
GetSwitch ==
    /\ pc = "get_switch"
    /\ \E reply \in QueryAnswers(<<"R">> \o Str(sw)) :
         LET q == query(rx, <<"R">> \o Str(sw), reply)
         IN  /\ wire' = reply
             /\ rx' = q.rest
             /\ log' = log \o q.evs
             /\ IF q.exc # ""
                THEN Raise(q.exc) /\ UNCHANGED answer
                ELSE /\ answer' = Bool(q.line)
                     /\ Return
                     /\ UNCHANGED <<state, da, sw, retval, errs, i, freads, fslept,
                                    set_power, num_presses, n>>
    /\ UNCHANGED <<op, first, calls, dev, unread>>

\* the public calls enable() and disable()
enable ==
    /\ Enter([NoOp EXCEPT !.name = "enable"])
    /\ stack' = <<>>
    /\ pc' = "enable"

disable ==
    /\ Enter([NoOp EXCEPT !.name = "disable"])
    /\ stack' = <<>>
    /\ pc' = "disable"

\* ret = self.query("EN"); if ret != "Remote keys enabled": raise
Enable ==
    /\ pc = "enable"
    /\ \E reply \in QueryAnswers(<<"E", "N">>) :
         LET q == query(rx, <<"E", "N">>, reply)
         IN  /\ rx' = q.rest
             /\ log' = log \o q.evs
             /\ IF q.exc # "" THEN Raise(q.exc)
                ELSE IF q.line # EnabledText THEN Raise("ToptekException")
                ELSE /\ Return
                     /\ UNCHANGED <<state, da, sw, retval, errs, i, freads, fslept,
                                    set_power, num_presses, n>>
    /\ UNCHANGED <<op, first, calls, wire, answer, dev, unread>>

\* ret = self.query("DS"); if ret != "Remote keys disabled": raise
Disable ==
    /\ pc = "disable"
    /\ \E reply \in QueryAnswers(<<"D", "S">>) :
         LET q == query(rx, <<"D", "S">>, reply)
         IN  /\ rx' = q.rest
             /\ log' = log \o q.evs
             /\ IF q.exc # "" THEN Raise(q.exc)
                ELSE IF q.line # DisabledText THEN Raise("ToptekException")
                ELSE /\ Return
                     /\ UNCHANGED <<state, da, sw, retval, errs, i, freads, fslept,
                                    set_power, num_presses, n>>
    /\ UNCHANGED <<op, first, calls, wire, answer, dev, unread>>

\* the public call Toptek.get_errors(): state = self.get_state()
CallGetErrors ==
    /\ Enter([NoOp EXCEPT !.name = "get_errors"])
    /\ stack' = <<"ge_check">>
    /\ pc' = "gs_rs"

\* if state.red_en is False: return [""]; else self.get_flashy_bargraph()
GetErrorsCheck ==
    /\ pc = "ge_check"
    /\ state' = NoState
    /\ IF ~state.red_en
       THEN /\ errs' = <<"">>
            /\ Return
            /\ UNCHANGED <<i, freads, fslept>>
       ELSE /\ CallProc("fb_loop", "ge_ret")
            /\ i' = 0 /\ freads' = 0 /\ fslept' = 0
            /\ UNCHANGED errs
    /\ UNCHANGED <<op, rx, log, da, first, sw, retval,
                   set_power, num_presses, n, calls, wire, answer, dev, unread>>

\* return <stabilized state>.get_errors()
GetErrorsReturn ==
    /\ pc = "ge_ret"
    /\ LET e == get_errors(state)
       IN  IF e.exc # "" THEN Raise(e.exc)
           ELSE /\ errs' = e.val
                /\ state' = NoState
                /\ Return
                /\ UNCHANGED <<da, sw, retval, i, freads, fslept,
                               set_power, num_presses, n>>
    /\ UNCHANGED <<op, rx, log, first, calls, wire, answer, dev, unread>>

\* the public call get_cur_power(): state = self.get_state()
get_cur_power ==
    /\ Enter([NoOp EXCEPT !.name = "get_cur_power"])
    /\ stack' = <<"gcp_check">>
    /\ pc' = "gs_rs"

\* if not state.tx_pa: raise; if state.red_en: raise; return state.get_power()
GetCurPower ==
    /\ pc = "gcp_check"
    /\ LET p == get_power(state)
       IN  IF ~state.tx_pa THEN Raise("ToptekException")
           ELSE IF state.red_en THEN Raise("ToptekException")
           ELSE IF p.exc # "" THEN Raise(p.exc)
           ELSE /\ retval' = p.val
                /\ state' = NoState
                /\ Return
                /\ UNCHANGED <<da, sw, errs, i, freads, fslept,
                               set_power, num_presses, n>>
    /\ UNCHANGED <<op, rx, log, first, calls, wire, answer, dev, unread>>

\* the public call info(): state = self.get_state()
info ==
    /\ Enter([NoOp EXCEPT !.name = "info"])
    /\ stack' = <<"info_sw">>
    /\ pc' = "gs_rs"

\* sw_state = self.get_switch_state(); the first state is kept to the end
InfoSwitches ==
    /\ pc = "info_sw"
    /\ first' = state
    /\ state' = NoState
    /\ CallProc("gss_r6", "info_branch")
    /\ UNCHANGED <<op, rx, log, da, sw, retval, errs, i, freads, fslept,
                   set_power, num_presses, n, calls, wire, answer, dev, unread>>

\* if sw_state.sw_show_swr: return; if state.red_en: self.get_errors(), return;
\* else self.get_tx_power()
InfoBranch ==
    /\ pc = "info_branch"
    /\ state' = NoState
    /\ IF state.sw_show_swr
       THEN Return
       ELSE /\ pc' = "gs_rs"
            /\ stack' = (IF first.red_en THEN <<"ge_check", "info_ret">>
                                         ELSE <<"gtp_check", "info_power">>) \o stack
            /\ UNCHANGED <<outcome, raised_at>>
    /\ UNCHANGED <<op, rx, log, da, first, sw, retval, errs, i, freads, fslept,
                   set_power, num_presses, n, calls, wire, answer, dev, unread>>

\* outstr += f", current power: {state.get_power()}"; return outstr
InfoPower ==
    /\ pc = "info_power"
    /\ LET p == get_power(first)
       IN  IF p.exc # "" THEN Raise(p.exc)
           ELSE /\ Return
                /\ UNCHANGED <<state, da, sw, retval, errs, i, freads, fslept,
                               set_power, num_presses, n>>
    /\ UNCHANGED <<op, rx, log, first, calls, wire, answer, dev, unread>>

\* return outstr (after the errors)
InfoReturn ==
    /\ pc = "info_ret"
    /\ Return
    /\ UNCHANGED <<op, rx, log, state, da, first, sw, retval, errs, i, freads, fslept,
                   set_power, num_presses, n, calls, wire, answer, dev, unread>>

\* the public calls write(cmd) and query(cmd)
CallWrite ==
    /\ \E c \in PublicCmds : Enter([NoOp EXCEPT !.name = "write", !.cmd = c])
    /\ stack' = <<>>
    /\ pc' = "write"

CallQuery ==
    /\ \E c \in PublicCmds : Enter([NoOp EXCEPT !.name = "query", !.cmd = c])
    /\ stack' = <<>>
    /\ pc' = "query"

\* the public call readline()
CallReadline ==
    /\ Enter([NoOp EXCEPT !.name = "readline"])
    /\ stack' = <<>>
    /\ pc' = "readline"

\* one line from the port, nothing having been sent
Readline ==
    /\ pc = "readline"
    /\ LET r == readline(rx)
       IN  /\ rx' = r.rest
           /\ IF r.exc # ""
              THEN Raise(r.exc) /\ UNCHANGED answer
              ELSE /\ answer' = r.line
                   /\ Return
                   /\ UNCHANGED <<state, da, sw, retval, errs, i, freads, fslept,
                                  set_power, num_presses, n>>
    /\ UNCHANGED <<op, log, first, calls, wire, dev, unread>>

InitProto ==
    /\ pc = "idle"
    /\ stack = <<>>
    /\ op = NoOp
    /\ outcome = "none"
    /\ raised_at = ""
    /\ rx = <<>>
    /\ log = <<>>
    /\ state = NoState
    /\ first = NoState
    /\ da = 0 /\ sw = 0 /\ retval = 0 /\ errs = <<>>
    /\ i = 0 /\ freads = 0 /\ fslept = 0
    /\ set_power = 0 /\ num_presses = 0 /\ n = 0
    /\ calls = 0
    /\ wire = <<>>
    /\ answer = <<>>
    /\ dev = Protocol
    /\ unread = 0

NextProto ==
    \/ Next
    \/ get_state \/ get_switch_state
    \/ press \/ switch_on \/ switch_off
    \/ press_manual \/ PressManualHold
    \/ da_on_fast \/ da_off_fast
    \/ get_switch \/ GetSwitch
    \/ enable \/ Enable \/ disable \/ Disable
    \/ CallGetErrors \/ GetErrorsCheck \/ GetErrorsReturn
    \/ get_cur_power \/ GetCurPower
    \/ info \/ InfoSwitches \/ InfoBranch \/ InfoPower \/ InfoReturn
    \/ CallWrite \/ Write
    \/ CallQuery \/ Query
    \/ CallReadline \/ Readline

SpecProto == InitProto /\ [][NextProto]_vars

-----------------------------------------------------------------------------
(* Properties *)

\* the flag a toggle reads, in the state st it has read
FlagRead(name, st) ==
    CASE name \in {"pa_on", "pa_off"}   -> st.tx_pa
      [] name \in {"lna_on", "lna_off"} -> st.lna_on
      [] name \in {"ssb_on", "ssb_off"} -> st.ssb_on
      [] name \in {"da_on", "da_off"}   -> st.sw_da_on

\* the value a toggle wants the flag to have
WantedOn(name) == name \in {"pa_on", "lna_on", "ssb_on", "da_on"}

\* C1 (as claimed): write(cmd) raises ToptekException whenever the next line
\* read from the device is not cmd, and returns normally only when that line
\* is cmd.
C1_TransportIntegrity ==
    (op.name = "write" /\ pc = "idle") =>
        LET raw  == SerReadline(wire)
            same == Range(raw) \cap InvalidBytes = {} /\ Strip(raw) = op.cmd
        IN  /\ ~same => outcome = "ToptekException"
            /\ outcome = "ok" => same

\* C2: a toggle whose first state read shows the flag at its target sends no
\* S<n>, U<n> or P<n> command and returns normally.
C2_Idempotent ==
    (/\ op.name \in ToggleNames
     /\ first # NoState
     /\ FlagRead(op.name, first) = WantedOn(op.name))
    => (pc = "idle" /\ outcome = "ok" /\ Actuations(log) = {})

C2_Witness ==
    /\ op.name = "ssb_on" /\ first # NoState
    /\ first.tx_pa /\ first.ssb_on
    /\ pc = "idle" /\ outcome = "ok" /\ Actuations(log) = {}

\* the toggle in progress found its flag not at target (for SSB, with the PA on)
MustActuate ==
    /\ op.name \in ToggleNames
    /\ first # NoState
    /\ FlagRead(op.name, first) # WantedOn(op.name)
    /\ op.name \in {"ssb_on", "ssb_off"} => first.tx_pa

\* a state register is read after the actuation
RereadAfterActuation ==
    \E a \in Actuations(log) :
        \E j \in (a + 1)..Len(log) : log[j].k = "tx" /\ log[j].c[1] = "R"

C3_Inv ==
    /\ op.name \in ToggleNames => Cardinality(Actuations(log)) <= 1
    /\ (MustActuate /\ pc = "idle") =>
          /\ Cardinality(Actuations(log)) = 1
          /\ outcome = "ok" =>
                /\ RereadAfterActuation
                /\ FlagRead(op.name, state) = WantedOn(op.name)

C3_Step ==
    (pc = "tg_verify" /\ FlagRead(op.name, state) # WantedOn(op.name))
    => (pc' = "idle" /\ outcome' = "ToptekException" /\ log' = log)

\* C3: a toggle that finds its flag not at target sends exactly one actuation
\* command, re-reads the state, and raises ToptekException when the re-read
\* flag is still not at target, sending nothing more; no toggle call sends
\* more than one actuation command.
C3_ConfirmThenVerify == [](C3_Inv) /\ [][C3_Step]_vars

C3_Witness ==
    /\ op.name = "pa_on" /\ MustActuate
    /\ pc = "idle" /\ outcome = "ToptekException" /\ raised_at = "tg_verify"
    /\ Cardinality(Actuations(log)) = 1 /\ RereadAfterActuation

\* the press count as the claim computes it
ClaimedPresses(cur, target) ==
    IF cur <= target THEN (target - cur) \div 20
                     ELSE ((80 - cur) \div 20) + (target \div 20)

\* C4 (as claimed): with the current setting and the target in {20,40,60,80},
\* set_tx_power computes (target - current)/20 presses when current <= target
\* and (80 - current)/20 + target/20 otherwise; with current = target that is
\* 0 presses, and the call returns with no actuation but the press of the read.
C4_StepCount ==
    (op.name = "set_tx_power" /\ set_power \in {20, 40, 60, 80}) =>
        /\ num_presses = ClaimedPresses(set_power, op.power)
        /\ set_power = op.power =>
              (pc = "idle" /\ outcome = "ok" /\ Cardinality(Actuations(log)) = 1)

\* C5: set_tx_power(p) with p not in {20,40,60,80} raises ToptekValueException
\* with no command written, whatever the device has sent.
C5_InvalidTarget ==
    (op.name = "set_tx_power" /\ op.power \notin {20, 40, 60, 80} /\ pc # "stp_entry")
    => (/\ pc = "idle"
        /\ outcome = "ToptekValueException"
        /\ raised_at = "stp_entry"
        /\ log = <<>>)

C5_Witness ==
    /\ op.name = "set_tx_power" /\ op.power = 41
    /\ pc = "idle" /\ outcome = "ToptekValueException" /\ log = <<>>
    /\ rx # <<>>

\* C6 (as claimed): when an LED is first seen lit at poll k, the stabilizer
\* returns the state of that poll after k + 1 reads, and the time it has slept
\* is the full window.
C6_StabilizerTiming ==
    (pc = "fb_ret" /\ any_on(state)) =>
        (freads = i + 1 /\ fslept = FLASHY_TOTAL_DELAY)

LadderLeds == <<"led_10", "led_20", "led_30", "led_40",
                "led_50", "led_60", "led_70", "led_80">>

\* the 1-based position of the highest ladder LED lit in st, 0 when none is
HighestLit(st) ==
    LET lit == {k \in 1..8 : st[LadderLeds[k]]}
    IN  IF lit = {} THEN 0 ELSE CHOOSE k \in lit : \A m \in lit : m <= k

\* C7: with red_en clear get_power returns 10 times the position of the
\* highest ladder LED lit (0 when none is), whatever the other flags; with
\* red_en set it raises ToptekException.
C7_PowerDecoding ==
    pc = "power" =>
        IF state.red_en THEN outcome = "ToptekException"
        ELSE outcome = "ok" /\ retval = 10 * HighestLit(state)

C7_Witness ==
    /\ pc = "power" /\ outcome = "ok" /\ retval = 70
    /\ state.led_70 /\ state.led_60 /\ state.led_20 /\ ~state.led_80
    /\ state.lna_on /\ state.da_swr

FaultNames == <<"PA FAIL", "HIGH TEMP", "DC VOLTAGE", "OVERDRIVE", "HIGH SWR">>

\* the names of the faults whose LED (led_10 .. led_50) is unset, from fault k on
RECURSIVE FaultsFrom(_, _)
FaultsFrom(st, k) ==
    IF k > 5 THEN <<>>
    ELSE (IF st[LadderLeds[k]] THEN <<>> ELSE <<FaultNames[k]>>) \o FaultsFrom(st, k + 1)

\* C8: with red_en clear get_errors raises ToptekException; with red_en set it
\* returns the names of the faults whose bit among led_10..led_50 is unset, in
\* the fixed order, whatever led_60, led_70 and led_80.
C8_ErrorDecoding ==
    pc = "errors" =>
        IF ~state.red_en THEN outcome = "ToptekException"
        ELSE outcome = "ok" /\ errs = FaultsFrom(state, 1)

C8_Witness ==
    /\ pc = "errors" /\ outcome = "ok"
    /\ state.red_en /\ state.led_10 /\ ~state.led_20 /\ state.led_30
    /\ ~state.led_40 /\ state.led_50 /\ state.led_80
    /\ errs = <<"HIGH TEMP", "OVERDRIVE">>

C10_Step ==
    (pc = "stp_check" /\ ~state.tx_pa)
    => (/\ pc' = "idle"
        /\ outcome' = "ToptekException"
        /\ Actuations(log') = {})

\* C10: set_tx_power with a valid target raises ToptekException, having sent
\* no actuation command, when the state it reads shows the PA off.
C10_PaOffPrecondition ==
    [](pc = "stp_check" => op.power \in {20, 40, 60, 80}) /\ [][C10_Step]_vars

C10_Witness ==
    /\ op.name = "set_tx_power" /\ op.power \in {20, 40, 60, 80}
    /\ pc = "idle" /\ outcome = "ToptekException" /\ raised_at = "stp_check"
    /\ Actuations(log) = {}

\* the events a toggle's log holds between its actuation command and the
\* command that follows it
AfterActuation ==
    LET a == CHOOSE k \in Actuations(log) : TRUE
        j == CHOOSE k \in (a + 1)..Len(log) :
                 /\ log[k].k = "tx"
                 /\ \A m \in (a + 1)..(k - 1) : log[m].k # "tx"
    IN  SubSeq(log, a + 1, j - 1)

\* C11 (as claimed): a PA, LNA or SSB toggle that actuates, on or off, sleeps
\* the configurable settle delay after the press (and the press's own pause)
\* and before the re-read of the state; a DA toggle sleeps no such delay.
C11_SettleDelay ==
    (op.name \in ToggleNames /\ RereadAfterActuation) =>
        IF op.name \in {"da_on", "da_off"}
        THEN AfterActuation = <<Sleep(WRITE_DELAY)>>
        ELSE \E d \in DelayArgs :
                AfterActuation = <<Sleep(WRITE_DELAY), Sleep(PRESS_DELAY), Sleep(d)>>

\* what a state read and a SET_PWR press leave in the log
ReadEvents == <<Tx(<<"R", "S">>), Sleep(WRITE_DELAY), Tx(<<"R", "A">>), Sleep(WRITE_DELAY)>>
PressEvents == <<Tx(<<"P">> \o Str(SET_PWR)), Sleep(WRITE_DELAY), Sleep(PRESS_DELAY)>>

\* what get_tx_power leaves in the log: the state read, and the press when the PA is on
SettingReads == {ReadEvents, ReadEvents \o PressEvents}

\* k presses, each after the inter-press delay
RECURSIVE SpacedPresses(_)
SpacedPresses(k) ==
    IF k = 0 THEN <<>>
    ELSE SpacedPresses(k - 1) \o <<Sleep(INTER_PRESS_DELAY)>> \o PressEvents

C12_Inv ==
    pc = "stp_verify" =>
        /\ num_presses > 0
        /\ \E before \in SettingReads, after \in SettingReads :
              log = ReadEvents \o before
                    \o PressEvents \o <<Sleep(OPEN_DELAY)>>
                    \o SpacedPresses(num_presses)
                    \o <<Sleep(COOLDOWN_DELAY)>>
                    \o after

C12_Step ==
    pc = "stp_verify" =>
        /\ log' = log
        /\ pc' = "idle"
        /\ retval # op.power => outcome' = "ToptekException"

\* C12: set_tx_power, its press count n computed (n > 0), sends one opening
\* SET_PWR press, then n SET_PWR presses each after the inter-press delay,
\* then sleeps the cooldown, then reads the setting through get_tx_power; a
\* reading other than the target raises ToptekException, nothing more sent.
C12_ActuationSequence == [](C12_Inv) /\ [][C12_Step]_vars

C12_Witness ==
    /\ op.name = "set_tx_power" /\ pc = "stp_verify"
    /\ num_presses = 3 /\ retval # op.power
    /\ Cardinality(Actuations(log)) >= 5

\* the stabilizer is polling, or about to
Polling == InFlashy \/ pc \in {"gtp_flashy", "fb_loop", "fb_check", "fb_ret", "gtp_ret"}

C13_Inv ==
    op.name = "get_tx_power" =>
        /\ Polling => log = ReadEvents \o PressEvents
        /\ (pc = "idle" /\ outcome = "ok") =>
              \/ log = ReadEvents /\ retval = 0
              \/ log = ReadEvents \o PressEvents
        /\ (pc = "idle" /\ raised_at = "gtp_ret") =>
              outcome = "ToptekException" /\ log = ReadEvents \o PressEvents

C13_Step ==
    /\ pc = "gtp_check" =>
          IF ~state.tx_pa
          THEN retval' = 0 /\ log' = log /\ pc' \notin {"press", "fb_loop"}
               /\ freads' = 0
          ELSE pc' = "press" /\ sw' = SET_PWR /\ freads = 0
    /\ pc = "gtp_ret" =>
          IF state.red_en
          THEN pc' = "idle" /\ outcome' = "ToptekException"
          ELSE retval' = get_power(state).val /\ outcome' # "ToptekException"

\* C13: get_tx_power returns 0, with no press and no poll, when the state it
\* reads shows the PA off; otherwise it sends one SET_PWR press, polls only
\* after it, and returns power() of the stabilized state, raising
\* ToptekException (the press already sent) when that state has red_en set.
C13_GetTxPower == [](C13_Inv) /\ [][C13_Step]_vars

C13_Witness ==
    /\ op.name = "get_tx_power" /\ pc = "idle"
    /\ outcome = "ToptekException" /\ raised_at = "gtp_ret"
    /\ log = ReadEvents \o PressEvents

\* the first line the device sent decodes to the command
EchoRead == /\ Range(SerReadline(wire)) \cap InvalidBytes = {}
            /\ Strip(SerReadline(wire)) = op.cmd

\* C14 (as claimed): query(cmd) writes cmd once; when the first line is the
\* echo it consumes that line and the next and returns the next, stripped;
\* when the first line is not the echo it raises with the next line unread.
C14_TwoPhaseQuery ==
    (op.name = "query" /\ pc = "idle") =>
        LET rest1 == SerRest(wire)
            raw2  == SerReadline(rest1)
        IN  /\ log = <<Tx(op.cmd), Sleep(WRITE_DELAY)>>
            /\ EchoRead =>
                  /\ outcome = "ok"
                  /\ rx = SerRest(rest1)
                  /\ Range(raw2) \cap InvalidBytes = {} => answer = Strip(raw2)
            /\ ~EchoRead =>
                  /\ outcome \in ExceptionNames
                  /\ rx = rest1

\* the flags of the LED register, from bit 0 up
FlagOrder == <<"led_10", "led_20", "led_30", "led_40", "led_50", "led_60",
               "led_70", "led_80", "red_en", "lna_on", "tx_pa", "ssb_on">>

\* C15: get_state, the device answering d (decimal) to RS and v (hex) to RA,
\* returns a state whose flag k of led_10 .. ssb_on is bit k of v, LSB first,
\* and whose da_swr is set exactly when d is not 0; RS is queried before RA.
C15_LedDecoding ==
    (op.name = "get_state" /\ pc = "idle") =>
        /\ outcome = "ok"
        /\ \A k \in 1..12 :
              state[FlagOrder[k]] = ((dev.ra \div Pow2(k - 1)) % 2 = 1)
        /\ state.da_swr = (dev.rs # 0)
        /\ log = ReadEvents

C15_Witness ==
    /\ op.name = "get_state" /\ pc = "idle" /\ outcome = "ok"
    /\ dev.ra = 2730 /\ dev.rs = 10
    /\ state.led_20 /\ ~state.led_10 /\ state.ssb_on /\ ~state.tx_pa /\ state.da_swr

\* C16: for each of the 2^13 states, get_power returns exactly when red_en is
\* clear and get_errors returns exactly when red_en is set, the other raising
\* ToptekException: never both valid, never both raising.
C16_Exclusive ==
    pc = "both" =>
        /\ answer.power = "" <=> ~state.red_en
        /\ answer.errors = "" <=> state.red_en
        /\ {answer.power, answer.errors} = {"", "ToptekException"}

C16_Witness ==
    /\ pc = "both" /\ state.red_en /\ state.led_80
    /\ answer.power = "ToptekException" /\ answer.errors = ""

\* C17 (as claimed): whenever set_tx_power(target) returns normally, the
\* reading its last get_tx_power call returned is the target, whatever the
\* first reading (0, 10, .., 80) was.
C17_VerifiedSuccess ==
    (op.name = "set_tx_power" /\ pc = "idle" /\ outcome = "ok") =>
        retval = op.power

C18_Inv ==
    /\ freads <= 40
    /\ pc = "fb_loop" => fslept = freads * FLASHY_POLL_DELAY
    /\ (pc = "fb_check" /\ ~any_on(state)) =>
          fslept = (freads + 1) * FLASHY_POLL_DELAY
    /\ (pc = "fb_ret" /\ ~any_on(state)) =>
          /\ freads = 40
          /\ fslept = 40 * FLASHY_POLL_DELAY

C18_Step ==
    /\ (pc = "fb_check" /\ ~any_on(state)) => (state' = state /\ fslept' = fslept)
    /\ pc = "fb_ret" => (state' = state /\ pc' \notin {"fb_loop", "gs_rs"})

\* C18: get_flashy_bargraph reads the state at most 40 times; when no ladder
\* LED is lit in any read it reads 40 times, sleeps one poll interval before
\* each read and nothing else, and returns the state of the 40th read as it is.
C18_StabilizerBound == [](C18_Inv) /\ [][C18_Step]_vars

C18_Witness ==
    /\ op.name = "get_flashy_bargraph" /\ pc = "fb_ret"
    /\ ~any_on(state) /\ state.red_en
    /\ freads = 40 /\ fslept = 2000

\* the value line of the device's answer, as text
ValueAnswered == Strip(SerReadline(SerRest(wire)))

\* C19 (as claimed): get_switch(n) returns true exactly when the value line
\* answered to R<n> is a number other than 0, and false when it is 0, as
\* get_switch_state decodes the R6 answer into sw_da_on.
C19_SingleSwitch ==
    (op.name = "get_switch" /\ pc = "idle" /\ outcome = "ok" /\ unread = 0) =>
        /\ answer = (IntDec(ValueAnswered) # 0)
        /\ op.sw = DA_EN => answer = SwitchState(0, IntDec(ValueAnswered)).sw_da_on

\* the ways a call ends that the claim allows: a normal return, or a
\* confirmation or precondition error
AllowedOutcomes == {"ok", "ToptekException", "ToptekValueException"}

\* C20 (as claimed): on a device that follows the protocol, every public
\* operation that returns normally or raises a confirmation or precondition
\* error ends with nothing unread in the port.
C20_TransportSync ==
    (pc = "idle" /\ outcome \in AllowedOutcomes) => rx = <<>>

\* C20 (amended): on a device that follows the protocol, as long as write()
\* has not been called directly with a command that has a value line, nothing
\* is unread in the port at the end of any public operation nor before any
\* command inside one, and no operation ends with a decoding or parsing error.
C20_SyncUnlessRawWrite ==
    unread = 0 =>
        /\ rx = <<>>
        /\ pc = "idle" => outcome \in AllowedOutcomes \cup {"none"}

C20_Witness ==
    /\ unread = 0 /\ calls = 2 /\ pc = "idle" /\ rx = <<>>
    /\ op.name = "set_tx_power"
    /\ outcome = "ToptekException" /\ raised_at = "stp_verify"

====
